---- MODULE Spec2Model ----
(***************************************************************************)
(* Model of main.py: the mail-driven closeout approval workflow.           *)
(*                                                                         *)
(* Strings are sequences of one-character strings.  A run of the script    *)
(* (module start-up followed by fetch_emails) is a sequence of steps, one  *)
(* per statement that touches the mailbox, the file system, SMTP or SFTP.  *)
(* The mailbox, the clock and the approvers are   the environment.           *)
(***************************************************************************)
EXTENDS Integers, Sequences, FiniteSets, TLC

(* ------------------------------ bounds --------------------------------- *)
\* messages ever delivered to the mailbox
MaxMsgs == 2
\* runs of the script
MaxRuns == 2
\* last value of the clock, in seconds after 2024-01-01 00:00:00
MaxTime == 1
\* longest run of blanks between the numeric groups of a report line
MaxGap == 2

(* --------------------------- characters -------------------------------- *)
DigitChars == <<"0", "1", "2", "3", "4", "5", "6", "7", "8", "9">>

Digits == {DigitChars[i] : i \in 1..10}

\* characters Python's \s and str.strip() treat as whitespace
Whitespace == {" ", "\t", "\n", "\r"}

Min(S) == CHOOSE x \in S : \A y \in S : x <= y

RECURSIVE Filter(_, _)
\* s without the characters of the set drop
Filter(s, drop) ==
  IF s = <<>> THEN <<>>
  ELSE IF Head(s) \in drop THEN Filter(Tail(s), drop)
       ELSE <<Head(s)>> \o Filter(Tail(s), drop)

\* Python's optional values
None == [some |-> FALSE, val |-> <<>>]

Some(v) == [some |-> TRUE, val |-> v]

(* ------------------------- extract_filename ---------------------------- *)
\* position of the first "]" after position i, 0 when there is none
FirstClose(s, i) ==
  LET closes == {j \in (i + 1)..Len(s) : s[j] = "]"}
  IN IF closes = {} THEN 0 ELSE Min(closes)

\* \[([^\]]+)\] matches at position i
BracketMatchAt(s, i) == s[i] = "[" /\ FirstClose(s, i) > i + 1

\* extract_filename returning group 0, the match with its brackets
extract_filename_group0(subject) ==
  LET starts == {i \in 1..Len(subject) : BracketMatchAt(subject, i)}
  IN IF starts = {} THEN None
     ELSE LET i == Min(starts)
          IN Some(SubSeq(subject, i, FirstClose(subject, i)))

\* re.search(r'\[([^\]]+)\]', subject): group 1 of the leftmost match
extract_filename(subject) ==
  LET starts == {i \in 1..Len(subject) : BracketMatchAt(subject, i)}
  IN IF starts = {} THEN None
     ELSE LET i == Min(starts)
          IN Some(SubSeq(subject, i + 1, FirstClose(subject, i) - 1))

(* ------------------------------ is_reply ------------------------------- *)
RePrefix == <<"R", "e", ":">>

StartsWith(s, p) == Len(s) >= Len(p) /\ SubSeq(s, 1, Len(p)) = p

\* a header is "absent" (get returns None), "empty" or "set"
is_reply(msg) ==
  IF StartsWith(msg.subject, RePrefix) THEN TRUE
  ELSE msg.inReplyTo # "absent" \/ msg.references # "absent"

(* ---------------------------- get_email_body --------------------------- *)
TextTypes == {"text/plain", "text/html"}

\* a part the walk of lines 104-108 returns the payload of
SuitablePart(part) == ~part.attachment /\ part.ctype \in TextTypes

\* The decoded body, or None where the code raises: a multipart message
\* whose walk finds no part falls through to line 109, where
\* get_payload(decode=True) is None for a multipart message and .decode()
\* raises AttributeError.
get_email_body(msg) ==
  IF msg.multipart
  THEN LET ok == {i \in 1..Len(msg.parts) : SuitablePart(msg.parts[i])}
       IN IF ok # {} THEN Some(msg.parts[Min(ok)].text) ELSE None
  ELSE Some(msg.payload)

(* -------------------------- process_email_text ------------------------- *)
\* first position >= i of s that holds no whitespace (Len(s) + 1 if none)
SkipWS(s, i) ==
  Min({k \in i..(Len(s) + 1) : k = Len(s) + 1 \/ s[k] \notin Whitespace})

\* s[i..i+n-1] are n digits
DigitsAt(s, i, n) == i + n - 1 <= Len(s) /\ \A k \in i..(i + n - 1) : s[k] \in Digits

WSAt(s, i) == i <= Len(s) /\ s[i] \in Whitespace

\* str.strip()
Strip(s) ==
  LET keep == {k \in 1..Len(s) : s[k] \notin Whitespace}
  IN IF keep = {} THEN <<>>
     ELSE SubSeq(s, Min(keep), CHOOSE k \in keep : \A j \in keep : j <= k)

RECURSIVE SplitLines(_)
\* str.split('\n'): always at least one line
SplitLines(s) ==
  LET nl == {k \in 1..Len(s) : s[k] = "\n"}
  IN IF nl = {} THEN <<s>>
     ELSE <<SubSeq(s, 1, Min(nl) - 1)>> \o SplitLines(SubSeq(s, Min(nl) + 1, Len(s)))

\* the pattern with \d{4} for its second group
LineMatchFourDigits(line) ==
  LET p0 == SkipWS(line, 1)
      p1 == SkipWS(line, p0 + 1)
      p2 == SkipWS(line, p1 + 4)
      p3 == SkipWS(line, p2 + 5)
      p4 == SkipWS(line, p3 + 1)
  IN IF /\ DigitsAt(line, p0, 1) /\ WSAt(line, p0 + 1)
        /\ DigitsAt(line, p1, 4) /\ WSAt(line, p1 + 4)
        /\ DigitsAt(line, p2, 5) /\ WSAt(line, p2 + 5)
        /\ DigitsAt(line, p3, 1) /\ WSAt(line, p3 + 1)
        /\ p4 <= Len(line) /\ line[p4] = "P"
     THEN Some(SubSeq(line, p0, p3))
     ELSE None

\* re.search(r'^\s*(\d\s+\d{5}\s+\d{5}\s+\d)\s+P', line): group 1, or None.
\* Digits and whitespace are disjoint, so the greedy match is the only one.
LineMatch(line) ==
  LET p0 == SkipWS(line, 1)
      p1 == SkipWS(line, p0 + 1)
      p2 == SkipWS(line, p1 + 5)
      p3 == SkipWS(line, p2 + 5)
      p4 == SkipWS(line, p3 + 1)
  IN IF /\ DigitsAt(line, p0, 1) /\ WSAt(line, p0 + 1)
        /\ DigitsAt(line, p1, 5) /\ WSAt(line, p1 + 5)
        /\ DigitsAt(line, p2, 5) /\ WSAt(line, p2 + 5)
        /\ DigitsAt(line, p3, 1) /\ WSAt(line, p3 + 1)
        /\ p4 <= Len(line) /\ line[p4] = "P"
     THEN Some(SubSeq(line, p0, p3))
     ELSE None

RECURSIVE ExtractLines(_)
ExtractLines(lines) ==
  IF lines = <<>> THEN <<>>
  ELSE LET m == LineMatch(Head(lines))
       IN (IF m.some THEN <<Filter(m.val, {" "})>> ELSE <<>>)
          \o ExtractLines(Tail(lines))

process_email_text(text) == ExtractLines(SplitLines(Strip(text)))

(* ------------------------------ CSV text ------------------------------- *)
HeaderCols ==
  <<"S", "K", "U", ",", "U", "P", "C", ",", "E", "A", "N", ",",
    "Q", "U", "A", "N", "T", "I", "T", "Y", "_",
    "A", "V", "A", "I", "L", "A", "B", "L", "E", ",",
    "S", "T", "A", "T", "U", "S">>

RowTail == <<",", ",", "0", ",", "d", "i", "s", "c", "o", "n", "t", "i", "n", "u", "e", "d">>

RECURSIVE FileRows(_)
\* lines 167-168
FileRows(data) ==
  IF data = <<>> THEN <<>>
  ELSE Head(data) \o <<",">> \o Head(data) \o RowTail \o <<",", "\n">>
       \o FileRows(Tail(data))

\* write_to_csv without line 166
CsvFileContentRowsOnly(data) == FileRows(data)

\* what write_to_csv writes into the file
CsvFileContent(data) == HeaderCols \o <<",", "\n">> \o FileRows(data)

RECURSIVE BodyRows(_)
\* lines 215-216
BodyRows(data) ==
  IF data = <<>> THEN <<>>
  ELSE Head(data) \o <<",">> \o Head(data) \o RowTail \o <<"\n">>
       \o BodyRows(Tail(data))

\* csv_data of lines 214-216
CsvBodyText(data) == HeaderCols \o <<"\n">> \o BodyRows(data)

(* ------------------------- identifier and subject ---------------------- *)
TwoDigits(n) == <<DigitChars[(n \div 10) + 1], DigitChars[(n % 10) + 1]>>

\* datetime.now().strftime('%Y%m%d%H%M%S') with the clock t seconds after
\* 2024-01-01 00:00:00 (t below one hour)
Strftime(t) ==
  <<"2", "0", "2", "4", "0", "1", "0", "1", "0", "0">>
  \o TwoDigits((t \div 60) % 60) \o TwoDigits(t % 60)

\* f'nordsvcp_{timestamp}.csv'
UniqueFilename(t) ==
  <<"n", "o", "r", "d", "s", "v", "c", "p", "_">> \o Strftime(t)
  \o <<".", "c", "s", "v">>

SubjectTag ==
  <<"D", "S", "V", "N", "o", "r", "d", " ", "C", "l", "o", "s", "e", "o", "u", "t", " ",
    "A", "p", "p", "r", "o", "v", "a", "l", ":", " ">>

\* f"DSVNord Closeout Approval: [{unique_filename}]"
OutgoingSubject(fname) == SubjectTag \o <<"[">> \o fname \o <<"]">>

BodyLead == <<"F", "i", "l", "e", "n", "a", "m", "e", ":", " ">>

BodyMid ==
  <<"\n", "h", "a", "s", " ", "b", "e", "e", "n", " ", "r", "e", "c", "e", "i", "v", "e", "d", ".",
    "\n", "D", "o", "e", "s", " ", "t", "h", "i", "s", " ", "l", "o", "o", "k", " ",
    "c", "o", "r", "r", "e", "c", "t", "?", "\n", "\n">>

\* the f-string of line 226
OutgoingBody(fname, csv) == BodyLead \o fname \o BodyMid \o csv

(* --------------------------- inbound messages -------------------------- *)
\* "0 12345 12345 6 P X" / "no": one matching line, one that does not match
OneRecordText ==
  <<"0", " ", "1", "2", "3", "4", "5", " ", "1", "2", "3", "4", "5", " ", "6",
    " ", "P", " ", "X", "\n", "n", "o", "\n">>

ReportSubject == <<"R", "p", "t">>

SinglePart(subject, irt, refs, text) ==
  [subject |-> subject, inReplyTo |-> irt, references |-> refs,
   multipart |-> FALSE, parts |-> <<>>, payload |-> text]

MultiPart(subject, irt, refs, parts) ==
  [subject |-> subject, inReplyTo |-> irt, references |-> refs,
   multipart |-> TRUE, parts |-> parts, payload |-> <<>>]

PdfAttachment == [ctype |-> "application/pdf", attachment |-> TRUE, text |-> <<>>]

\* reports as the sender's system mails them
Originals ==
  { SinglePart(ReportSubject, "absent", "absent", OneRecordText),
    SinglePart(ReportSubject, "absent", "absent", <<>>),
    MultiPart(ReportSubject, "absent", "absent", <<PdfAttachment>>) }

ExtTag == <<"[", "E", "X", "T", "]", " ">>

\* what an approver's mail client (and a tagging gateway) makes of the
\* subject of a notification
ReplySubjects(subject) ==
  { RePrefix \o <<" ">> \o subject,
    RePrefix \o <<" ">> \o ExtTag \o subject }

\* replies that answer no notification
StrayReplies ==
  { SinglePart(RePrefix \o <<" ", "o", "k">>, "absent", "absent", <<>>),
    SinglePart(<<"A", "W", ":", " ", "[", "x", "]">>, "set", "absent", <<>>) }

(* -------------------------------- state -------------------------------- *)
VARIABLES
  mailbox,   \* the messages of the inbox; a message's uid is its index
  unseen,    \* uids without the \Seen flag
  now,       \* the clock
  files,     \* artifact store: the files, each a name, a content and the
             \* number of times it was opened for writing
  sent,      \* notifications delivered by SMTP, in order
  uploads,   \* uploads asked of sftp_upload_file, in order
  runs,      \* runs of the script started so far
  cfg,       \* configuration the running process found at start-up
  pc,        \* position of the running process, "idle" between runs
  outcome,   \* how the last run ended
  sel,       \* state of the IMAP session's mailbox selection
  batch,     \* messages of line 186
  idx,       \* position of the for loop of line 188 in batch
  loc,       \* extracted_data, csv_data, unique_filename
  events,    \* history: what the run did so far, in order
  atStart    \* history: mailbox flags, files and outboxes when the run began

vars ==
  <<mailbox, unseen, now, files, sent, uploads, runs, cfg, pc, outcome, sel, batch, idx, loc, events, atStart>>

\* CONFIG_PATH in the environment, the EMAIL section of config.ini,
\* LOCAL_FILE_PATH in the environment
FullConfig == [configPath |-> TRUE, emailSection |-> TRUE, localPath |-> TRUE]

Configs ==
  { FullConfig,
    [FullConfig EXCEPT !.configPath = FALSE],
    [FullConfig EXCEPT !.emailSection = FALSE],
    [FullConfig EXCEPT !.localPath = FALSE] }

EmptyLoc == [data |-> <<>>, csv |-> <<>>, fname |-> <<>>]

Event(op, uid, name, ok) == [op |-> op, uid |-> uid, name |-> name, ok |-> ok]

Log(op, uid, name, ok) ==
  /\ events' = Append(events, Event(op, uid, name, ok))
  /\ UNCHANGED atStart

RECURSIVE SortedSeq(_)
\* UID SEARCH lists the uids in ascending order
SortedSeq(S) == IF S = {} THEN <<>> ELSE <<Min(S)>> \o SortedSeq(S \ {Min(S)})

CurUid == batch[idx]

CurMsg == mailbox[CurUid]

Init ==
  /\ mailbox = <<>>
  /\ unseen = {}
  /\ now = 0
  /\ files = {}
  /\ sent = <<>>
  /\ uploads = <<>>
  /\ runs = 0
  /\ cfg = FullConfig
  /\ pc = "idle"
  /\ outcome = "none"
  /\ sel = "none"
  /\ batch = <<>>
  /\ idx = 0
  /\ loc = EmptyLoc
  /\ events = <<>>
  /\ atStart = [unseen |-> {}, files |-> {}, sent |-> <<>>, uploads |-> <<>>]

(* ----------------------------- environment ----------------------------- *)
Tick ==
  /\ now < MaxTime
  /\ now' = now + 1
  /\ UNCHANGED <<mailbox, unseen, files, sent, uploads, runs, cfg, pc, outcome, sel, batch, idx, loc, events, atStart>>

Arrive(m) ==
  /\ Len(mailbox) < MaxMsgs
  /\ mailbox' = Append(mailbox, m)
  /\ unseen' = unseen \cup {Len(mailbox) + 1}
  /\ UNCHANGED <<now, files, sent, uploads, runs, cfg, pc, outcome, sel, batch, idx, loc, events, atStart>>

DeliverOriginal == \E m \in Originals : Arrive(m)

DeliverReply ==
  \E i \in 1..Len(sent) : \E subj \in ReplySubjects(sent[i].subject) :
    Arrive(SinglePart(subj, "set", "set", <<>>))

DeliverStray == \E m \in StrayReplies : Arrive(m)

(* ---------------------------- control flow ----------------------------- *)
\* the process ends: its session, its configuration and its locals go
EndRun(kind) ==
  /\ pc' = "idle"
  /\ outcome' = kind
  /\ cfg' = FullConfig
  /\ sel' = "none"
  /\ batch' = <<>>
  /\ idx' = 0
  /\ loc' = EmptyLoc

\* an exception reaches the except clause of lines 232-233, which prints
\* it; fetch_emails returns and the script ends
Raise(kind) == EndRun(kind)

\* the next statement
Goto(p) ==
  /\ pc' = p
  /\ UNCHANGED <<outcome, cfg, sel, batch, idx, loc>>

\* the loop searching again before it takes the next uid
NextMessageRescan ==
  /\ idx' = idx + 1
  /\ batch' = SortedSeq({batch[i] : i \in 1..Len(batch)} \cup unseen)
  /\ pc' = IF idx + 1 <= Len(batch') THEN "fetch" ELSE "close"
  /\ loc' = EmptyLoc
  /\ UNCHANGED <<outcome, cfg, sel>>

\* the for loop of line 188 takes the next uid, or ends
NextMessage ==
  /\ idx' = idx + 1
  /\ pc' = IF idx + 1 <= Len(batch) THEN "fetch" ELSE "close"
  /\ loc' = EmptyLoc
  /\ UNCHANGED <<outcome, cfg, sel, batch>>

(* ------------------------------ start-up ------------------------------- *)
\* Lines 14-33, then the call of line 236.  Without CONFIG_PATH line 18
\* raises TypeError and the process ends; a missing EMAIL section is caught
\* at lines 27-28, leaves EMAIL_RECIPIENTS unbound, and the script goes on.
StartRun ==
  /\ pc = "idle"
  /\ runs < MaxRuns
  /\ runs' = runs + 1
  /\ \E c \in Configs :
       IF c.configPath
       THEN /\ cfg' = c
            /\ pc' = "connect"
            /\ outcome' = "running"
            /\ UNCHANGED <<sel, batch, idx, loc>>
       ELSE EndRun("startup")
  /\ events' = <<>>
  /\ atStart' = [unseen |-> unseen, files |-> files, sent |-> sent, uploads |-> uploads]
  /\ UNCHANGED <<mailbox, unseen, now, files, sent, uploads>>

(* ---------------------------- fetch_emails ----------------------------- *)
\* line 180
Connect ==
  /\ pc = "connect"
  /\ Goto("login") \/ Raise("transport")
  /\ UNCHANGED <<mailbox, unseen, now, files, sent, uploads, runs, events, atStart>>

\* line 181
Login ==
  /\ pc = "login"
  /\ Goto("select") \/ Raise("transport")
  /\ UNCHANGED <<mailbox, unseen, now, files, sent, uploads, runs, events, atStart>>

\* Line 182.  The reply of the server is dropped: the inbox is opened
\* read-write or read-only, or the server answers NO, which imaplib
\* returns without raising; a lost connection raises.
Select ==
  /\ pc = "select"
  /\ \/ \E r \in {"rw", "ro", "no"} :
          /\ sel' = r
          /\ pc' = "search"
          /\ UNCHANGED <<outcome, cfg, batch, idx, loc>>
     \/ Raise("transport")
  /\ UNCHANGED <<mailbox, unseen, now, files, sent, uploads, runs, events, atStart>>

\* the search going ahead although the select was refused
SearchUnchecked ==
  /\ pc = "search"
  /\ batch' = SortedSeq(unseen)
  /\ idx' = 1
  /\ pc' = IF unseen # {} THEN "fetch" ELSE "close"
  /\ UNCHANGED <<outcome, cfg, sel, loc>>
  /\ UNCHANGED <<mailbox, unseen, now, files, sent, uploads, runs, events, atStart>>

\* Lines 185-186.  With no mailbox selected imaplib refuses the command
\* and raises.
Search ==
  /\ pc = "search"
  /\ IF sel = "no"
     THEN Raise("transport")
     ELSE /\ batch' = SortedSeq(unseen)
          /\ idx' = 1
          /\ pc' = IF unseen # {} THEN "fetch" ELSE "close"
          /\ UNCHANGED <<outcome, cfg, sel, loc>>
  /\ UNCHANGED <<mailbox, unseen, now, files, sent, uploads, runs, events, atStart>>

\* Lines 189-195.  FETCH RFC822 sets \Seen on the server when the inbox
\* is open read-write.
Fetch ==
  /\ pc = "fetch"
  /\ unseen' = IF sel = "rw" THEN unseen \ {CurUid} ELSE unseen
  /\ Log("fetch", CurUid, <<>>, TRUE)
  /\ Goto(IF is_reply(CurMsg) THEN "reply" ELSE "body")
  /\ UNCHANGED <<mailbox, now, files, sent, uploads, runs>>

\* the reply branch going on into the branch of the original report
SftpFailureFallsThrough == Goto("body")

\* lines 58-59: the except clause of sftp_upload_file
SftpFailureCaught == NextMessage

\* the upload going ahead whatever extract_filename returned
FilenameUnchecked(filename) == TRUE

\* line 197, "if filename:": neither None nor the empty string
FilenameFound(filename) == filename.some /\ filename.val # <<>>

\* Lines 196-208, with sftp_upload_file (37-61).  A missing
\* LOCAL_FILE_PATH makes line 204 add None and a string: TypeError.
ReplyBranch ==
  /\ pc = "reply"
  /\ LET filename == extract_filename(CurMsg.subject)
     IN IF ~FilenameFound(filename)
        THEN NextMessage /\ UNCHANGED <<uploads, events, atStart>>
        ELSE IF ~cfg.localPath
        THEN Raise("error") /\ UNCHANGED <<uploads, events, atStart>>
        ELSE /\ uploads' = Append(uploads, [uid |-> CurUid, name |-> filename.val])
             /\ \/ Log("upload", CurUid, filename.val, TRUE) /\ NextMessage
                \/ Log("upload", CurUid, filename.val, FALSE) /\ SftpFailureCaught
  /\ UNCHANGED <<mailbox, unseen, now, files, sent, runs>>

\* lines 210-220
BuildArtifact ==
  /\ pc = "body"
  /\ LET body == get_email_body(CurMsg)
     IN IF ~body.some
        THEN Raise("error") /\ Log("nobody", CurUid, <<>>, FALSE)
        ELSE LET data == process_email_text(body.val)
             IN /\ loc' = [data |-> data, csv |-> CsvBodyText(data),
                           fname |-> UniqueFilename(now)]
                /\ pc' = "write"
                /\ UNCHANGED <<outcome, cfg, sel, batch, idx, events, atStart>>
  /\ UNCHANGED <<mailbox, unseen, now, files, sent, uploads, runs>>

\* a write that reports success and leaves no file
StoreFileDropped(name, content) == files

\* open(filename, 'w') and the writes of lines 165-168
StoreFile(name, content) ==
  LET old == {f \in files : f.name = name}
      n == IF old = {} THEN 0 ELSE (CHOOSE f \in old : TRUE).writes
  IN (files \ old) \cup {[name |-> name, content |-> content, writes |-> n + 1]}

\* Line 221.  open() raises OSError when the file cannot be created.
WriteToCsv ==
  /\ pc = "write"
  /\ \/ /\ files' = StoreFile(loc.fname, CsvFileContent(loc.data))
        /\ Log("write", CurUid, loc.fname, TRUE)
        /\ Goto("store")
     \/ /\ Log("write", CurUid, loc.fname, FALSE)
        /\ Raise("error")
        /\ UNCHANGED files
  /\ UNCHANGED <<mailbox, unseen, now, sent, uploads, runs>>

\* Line 222.  The result is dropped: the server sets the flag (OK),
\* refuses (NO, on a read-only inbox), or the connection is lost (raise).
MarkSeen ==
  /\ pc = "store"
  /\ \/ /\ sel = "rw"
        /\ unseen' = unseen \ {CurUid}
        /\ Log("store", CurUid, <<>>, TRUE)
        /\ Goto("send")
     \/ /\ sel = "ro"
        /\ Log("store", CurUid, <<>>, FALSE)
        /\ Goto("send")
        /\ UNCHANGED unseen
     \/ /\ Log("store", CurUid, <<>>, FALSE)
        /\ Raise("error")
        /\ UNCHANGED unseen
  /\ UNCHANGED <<mailbox, now, files, sent, uploads, runs>>

\* send_email without its except clause: the SMTP error reaches line 232
SmtpFailureRaised == Raise("error")

\* lines 90-91: the except clause of send_email
SmtpFailureCaught == NextMessage

\* Lines 225-227, with send_email (65-91).  With EMAIL_RECIPIENTS unbound
\* the call of line 227 raises NameError.
SendNotification ==
  /\ pc = "send"
  /\ IF ~cfg.emailSection
     THEN Raise("error") /\ UNCHANGED <<sent, events, atStart>>
     ELSE \/ /\ sent' = Append(sent, [subject |-> OutgoingSubject(loc.fname),
                                      body |-> OutgoingBody(loc.fname, loc.csv),
                                      uid |-> CurUid])
             /\ Log("send", CurUid, loc.fname, TRUE)
             /\ NextMessage
          \/ /\ Log("send", CurUid, loc.fname, FALSE)
             /\ SmtpFailureCaught
             /\ UNCHANGED sent
  /\ UNCHANGED <<mailbox, unseen, now, files, uploads, runs>>

\* lines 229-230
CloseSession ==
  /\ pc = "close"
  /\ EndRun("ok")
  /\ UNCHANGED <<mailbox, unseen, now, files, sent, uploads, runs, events, atStart>>

Next ==
  \/ Tick
  \/ DeliverOriginal
  \/ DeliverReply
  \/ DeliverStray
  \/ StartRun
  \/ Connect
  \/ Login
  \/ Select
  \/ Search
  \/ Fetch
  \/ ReplyBranch
  \/ BuildArtifact
  \/ WriteToCsv
  \/ MarkSeen
  \/ SendNotification
  \/ CloseSession

Spec == Init /\ [][Next]_vars

(* ------------------------ one run over any inbox ----------------------- *)
\* A second specification: the script is run once, on an inbox that holds
\* any unread mail; more mail may arrive while it runs.
\* the mail an inbox can hold when a run starts
Inbound ==
  Originals \cup StrayReplies
  \cup { SinglePart(subj, "set", "set", <<>>) :
           subj \in UNION { ReplySubjects(OutgoingSubject(UniqueFilename(t))) :
                            t \in 0..MaxTime } }

RECURSIVE Inboxes(_)
\* the sequences of at most n messages
Inboxes(n) ==
  IF n = 0 THEN {<<>>}
  ELSE LET shorter == Inboxes(n - 1)
       IN shorter \cup {Append(box, m) : box \in shorter, m \in Inbound}

InitAnyInbox ==
  /\ mailbox \in Inboxes(MaxMsgs)
  /\ unseen = DOMAIN mailbox
  /\ now = 0
  /\ files = {}
  /\ sent = <<>>
  /\ uploads = <<>>
  /\ runs = 0
  /\ cfg = FullConfig
  /\ pc = "idle"
  /\ outcome = "none"
  /\ sel = "none"
  /\ batch = <<>>
  /\ idx = 0
  /\ loc = EmptyLoc
  /\ events = <<>>
  /\ atStart = [unseen |-> {}, files |-> {}, sent |-> <<>>, uploads |-> <<>>]

StartOnce == runs = 0 /\ StartRun

NextOneRun ==
  \/ Tick
  \/ DeliverOriginal
  \/ DeliverReply
  \/ DeliverStray
  \/ StartOnce
  \/ Connect
  \/ Login
  \/ Select
  \/ Search
  \/ Fetch
  \/ ReplyBranch
  \/ BuildArtifact
  \/ WriteToCsv
  \/ MarkSeen
  \/ SendNotification
  \/ CloseSession

OneRun == InitAnyInbox /\ [][NextOneRun]_vars

(* ------------------- one run over one message of any shape ------------- *)
\* A third specification: the inbox holds one unread message, drawn from
\* the shapes of subject, thread headers and body text below, and the
\* script is run once.
RECURSIVE Blanks(_)
\* the runs of at most n spaces and tabs
Blanks(n) ==
  IF n = 0 THEN {<<>>}
  ELSE LET shorter == Blanks(n - 1)
       IN shorter \cup {Append(gap, c) : gap \in shorter, c \in {" ", "\t"}}

Gaps == Blanks(MaxGap) \ {<<>>}

FiveDigits == <<"1", "2", "3", "4", "5">>

FourDigits == <<"1", "2", "3", "4">>

\* a report line: one digit, a second group, five digits, one digit, " P extra"
ReportLine(gap, second) ==
  <<"1">> \o gap \o second \o gap \o FiveDigits \o gap \o <<"6">> \o gap
  \o <<"P", " ", "e", "x", "t", "r", "a">>

\* "1 12345 12345 6 P extra"
BoundaryLine == ReportLine(<<" ">>, FiveDigits)

\* "1 1234 12345 6 P extra"
ShortLine == ReportLine(<<" ">>, FourDigits)

Bodies ==
  {ReportLine(gap, FiveDigits) : gap \in Gaps}
  \cup {<<>>, ShortLine, ShortLine \o <<"\n">> \o BoundaryLine}

Subjects ==
  { ReportSubject,
    RePrefix,
    RePrefix \o <<" ", "o", "k">>,
    <<"R", "E", ":", " ", "o", "k">> }

HeaderValues == {"absent", "empty", "set"}

Shapes ==
  {SinglePart(subj, irt, refs, <<>>) :
     subj \in Subjects, irt \in HeaderValues, refs \in HeaderValues}
  \cup {SinglePart(ReportSubject, "absent", "absent", text) : text \in Bodies}

InitAnyMessage ==
  /\ mailbox \in {<<m>> : m \in Shapes}
  /\ unseen = {1}
  /\ now = 0
  /\ files = {}
  /\ sent = <<>>
  /\ uploads = <<>>
  /\ runs = 0
  /\ cfg = FullConfig
  /\ pc = "idle"
  /\ outcome = "none"
  /\ sel = "none"
  /\ batch = <<>>
  /\ idx = 0
  /\ loc = EmptyLoc
  /\ events = <<>>
  /\ atStart = [unseen |-> {}, files |-> {}, sent |-> <<>>, uploads |-> <<>>]

NextAnyMessage ==
  \/ StartOnce
  \/ Connect
  \/ Login
  \/ Select
  \/ Search
  \/ Fetch
  \/ ReplyBranch
  \/ BuildArtifact
  \/ WriteToCsv
  \/ MarkSeen
  \/ SendNotification
  \/ CloseSession

AnyMessage == InitAnyMessage /\ [][NextAnyMessage]_vars

(* ------------------------------ properties ----------------------------- *)
Uids == 1..Len(mailbox)

Notifications(u) == {i \in DOMAIN sent : sent[i].uid = u}

UploadRequests(u) == {i \in DOMAIN uploads : uploads[i].uid = u}

\* positions of the run's history where op was done for uid u
Did(op, u) == {i \in DOMAIN events : events[i].op = op /\ events[i].uid = u}

FailedTransfer(e) == e.op \in {"send", "upload"} /\ ~e.ok

\* sub occurs in s at position i
OccursAt(s, sub, i) == i + Len(sub) - 1 <= Len(s) /\ SubSeq(s, i, i + Len(sub) - 1) = sub

Bracketed(name) == <<"[">> \o name \o <<"]">>

FileNames == {f.name : f \in files}

C2_MarkedBeforeNext ==
  \A i \in 1..Len(batch) : i < idx => Did("store", batch[i]) # {}

\* C3: in the run's history a store for a message comes only after the
\* send for that message was attempted.
C3_SendBeforeMark ==
  \A i \in DOMAIN events :
    events[i].op = "store" =>
      \E j \in 1..(i - 1) : events[j].op = "send" /\ events[j].uid = events[i].uid

\* C4: a run in which write_to_csv raised for a message has issued the
\* store for that message by the time it ends.
C4_MarkAfterWriteFailure ==
  pc = "idle" =>
    \A i \in DOMAIN events :
      (events[i].op = "write" /\ ~events[i].ok) => Did("store", events[i].uid) # {}

\* C5: a failed SMTP send or SFTP upload ends only the processing of its
\* message: the next thing the run does is fetch the next message of the
\* batch, or close the session when there is none, and the run ends well.
C5_TransferFailureContinues ==
  \A i \in DOMAIN events :
    FailedTransfer(events[i]) =>
      IF i < Len(events)
      THEN events[i + 1].op = "fetch" /\ events[i + 1].uid > events[i].uid
      ELSE \/ pc = "fetch" /\ batch[idx] > events[i].uid
           \/ pc = "close"
           \/ pc = "idle" /\ outcome = "ok"

\* a later message was fetched after a transfer failed
C5_Witness ==
  \E i \in DOMAIN events : \E j \in DOMAIN events :
    i < j /\ FailedTransfer(events[i]) /\ events[j].op = "fetch"

\* C6: a message without a text part does not end the run in the except
\* clause.
C6_NoBodyIsNotFatal ==
  \A i \in DOMAIN events : events[i].op = "nobody" => outcome # "error"

\* C7: a process that found a configuration value missing touches no
\* message.
C7_MissingConfigTouchesNothing ==
  (~cfg.emailSection \/ ~cfg.localPath) => events = <<>>

\* C8: in a session whose select was refused, and after a run that ended
\* on a failed connect, login or select, the run has done nothing: every
\* message unread at its start is unread, and files, notifications and
\* upload requests are those of its start.
C8_TransportFailureTouchesNothing ==
  (sel = "no" \/ (pc = "idle" /\ outcome = "transport")) =>
    /\ events = <<>>
    /\ atStart.unseen \subseteq unseen
    /\ files = atStart.files
    /\ sent = atStart.sent
    /\ uploads = atStart.uploads

\* a run ended on a transport failure with messages waiting
C8_Witness == pc = "idle" /\ outcome = "transport" /\ atStart.unseen # {}

\* C9: no artifact file is opened for writing a second time.
C9_NoArtifactOverwritten == \A f \in files : f.writes <= 1

\* the first "[" of s is at position i
FirstOpenAt(s, i) == s[i] = "[" /\ \A j \in 1..(i - 1) : s[j] # "["

\* C10 as stated: an upload requested for a reply whose subject contains
\* [I], I the name of a generated artifact, names I.
C10_RoundTripAnywhere ==
  \A k \in DOMAIN uploads : \A name \in FileNames :
    LET subject == mailbox[uploads[k].uid].subject
    IN (\E i \in 1..Len(subject) : OccursAt(subject, Bracketed(name), i))
         => uploads[k].name = name

\* C10 amended: the subject of every notification resolves to the name of
\* a generated artifact, and an upload requested for a reply whose subject
\* contains [I] with no "[" before it names I.
C10_RoundTripFirstBracket ==
  /\ \A n \in DOMAIN sent :
       LET found == extract_filename(sent[n].subject)
       IN found.some /\ found.val \in FileNames
  /\ \A k \in DOMAIN uploads : \A name \in FileNames :
       LET subject == mailbox[uploads[k].uid].subject
       IN (\E i \in 1..Len(subject) :
             OccursAt(subject, Bracketed(name), i) /\ FirstOpenAt(subject, i))
            => uploads[k].name = name

\* an upload was requested for a reply that carries a generated name in its
\* first brackets
C10_Witness ==
  \E k \in DOMAIN uploads : \E name \in FileNames :
    LET subject == mailbox[uploads[k].uid].subject
    IN \E i \in 1..Len(subject) :
         OccursAt(subject, Bracketed(name), i) /\ FirstOpenAt(subject, i)

\* s holds a "[", then at least one character, then a "]"
HasBracketedSpan(s) ==
  \E i \in 1..Len(s) : \E j \in (i + 2)..Len(s) : s[i] = "[" /\ s[j] = "]"

\* the message of uid u is a reply whose subject has no bracketed span
ReplyWithoutName(u) == is_reply(mailbox[u]) /\ ~HasBracketedSpan(mailbox[u].subject)

\* C11: for a fetched reply whose subject holds no bracketed span,
\* extract_filename yields nothing, no upload is ever requested for it, and
\* the next thing the run does is fetch the next message of the batch, or
\* close the session and end well.
C11_ReplyWithoutNameSkipped ==
  \A i \in DOMAIN events :
    (events[i].op = "fetch" /\ ReplyWithoutName(events[i].uid)) =>
      /\ ~extract_filename(mailbox[events[i].uid].subject).some
      /\ UploadRequests(events[i].uid) = {}
      /\ IF i < Len(events)
         THEN events[i + 1].op = "fetch" /\ events[i + 1].uid > events[i].uid
         ELSE \/ pc = "reply" /\ CurUid = events[i].uid
              \/ pc = "fetch" /\ CurUid > events[i].uid
              \/ pc = "close"
              \/ pc = "idle" /\ outcome = "ok"

\* a later message was fetched after a reply without a bracketed span
C11_Witness ==
  \E i \in DOMAIN events : \E j \in DOMAIN events :
    /\ i < j
    /\ events[i].op = "fetch" /\ ReplyWithoutName(events[i].uid)
    /\ events[j].op = "fetch"

\* the position of the run in the branch of the original report
InOriginalBranch == pc \in {"body", "write", "store", "send"}

\* the classification the claim gives: the subject begins with "Re:" or a
\* thread header is present and not empty
MarkedAsReply(msg) ==
  \/ StartsWith(msg.subject, RePrefix)
  \/ msg.inReplyTo = "set"
  \/ msg.references = "set"

\* C12: the run takes the reply branch for a message exactly when its
\* subject begins with "Re:" or one of In-Reply-To and References is
\* present and not empty, and the branch of the original report otherwise.
C12_ReplyIffMarked ==
  /\ pc = "reply" => MarkedAsReply(CurMsg)
  /\ InOriginalBranch => ~MarkedAsReply(CurMsg)

\* the message of uid u is an original report whose body has no matching line
ReportWithoutRecords(u) ==
  /\ ~is_reply(mailbox[u])
  /\ get_email_body(mailbox[u]).some
  /\ process_email_text(get_email_body(mailbox[u]).val) = <<>>

HeaderRow == HeaderCols \o <<",", "\n">>

\* notifications this run sent for uid u
SentInRun(u) == {n \in DOMAIN sent : n > Len(atStart.sent) /\ sent[n].uid = u}

\* C13: an original report without a matching line goes the whole way of
\* an original.  After its fetch the run writes the artifact (no exception
\* in between); once written, the file holds the header row and nothing
\* else; after the write comes the store and after the store the send; a
\* send that succeeded left exactly one notification, whose subject holds
\* the name of the artifact in brackets.
C13_EmptyReportStillHandled ==
  /\ \A i \in DOMAIN events :
       LET e == events[i]
           last == i = Len(events)
       IN ReportWithoutRecords(e.uid) =>
            /\ e.op # "nobody"
            /\ e.op = "fetch" =>
                 IF last THEN pc \in {"body", "write"} /\ CurUid = e.uid
                 ELSE events[i + 1].op = "write" /\ events[i + 1].uid = e.uid
            /\ (e.op = "write" /\ e.ok) =>
                 IF last THEN pc = "store" /\ CurUid = e.uid
                 ELSE events[i + 1].op = "store" /\ events[i + 1].uid = e.uid
            /\ (e.op = "store" /\ ~last) =>
                 events[i + 1].op = "send" /\ events[i + 1].uid = e.uid
            /\ (e.op = "send" /\ e.ok) =>
                 /\ Cardinality(SentInRun(e.uid)) = 1
                 /\ \A n \in SentInRun(e.uid) :
                      /\ sent[n].subject = SubjectTag \o Bracketed(e.name)
                      /\ extract_filename(sent[n].subject) = Some(e.name)
                      /\ e.name \in FileNames
            /\ Cardinality(SentInRun(e.uid)) <= 1
  /\ (pc \in {"store", "send"} /\ ReportWithoutRecords(CurUid)) =>
       \E f \in files : f.name = loc.fname /\ f.content = HeaderRow

\* a notification went out for a report with an empty body
C13_Witness ==
  \E i \in DOMAIN events :
    /\ events[i].op = "send" /\ events[i].ok
    /\ ReportWithoutRecords(events[i].uid)
    /\ mailbox[events[i].uid].payload = <<>>
    /\ Did("store", events[i].uid) # {}

\* C14: the CSV text in the body of every notification is the content of
\* the artifact file the notification names.
C14_BodyCsvEqualsFile ==
  \A n \in DOMAIN sent :
    \E f \in files :
      /\ sent[n].subject = OutgoingSubject(f.name)
      /\ sent[n].body = OutgoingBody(f.name, f.content)

OnlyDigits(code) == code # <<>> /\ \A k \in 1..Len(code) : code[k] \in Digits

\* C15: every code process_email_text returned for the message in hand is
\* a non-empty string of digits.
C15_CodesAreDigits == \A k \in 1..Len(loc.data) : OnlyDigits(loc.data[k])

\* the run holds the records of an original report whose body is text
HoldsRecordsOf(text) == pc \in {"write", "store", "send"} /\ CurMsg.payload = text

\* "1123456"
StatedCode == <<"1", "1", "2", "3", "4", "5", "6">>

\* "112345123456": the groups 1, 12345, 12345 and 6 one after the other
JoinedCode == <<"1">> \o FiveDigits \o FiveDigits \o <<"6">>

\* C16 as stated: the line "1 12345 12345 6 P extra" yields the code
\* "1123456", and a line whose second group has four digits yields no
\* record.
C16_BoundaryAsStated ==
  /\ HoldsRecordsOf(BoundaryLine) => loc.data = <<StatedCode>>
  /\ HoldsRecordsOf(ShortLine) => loc.data = <<>>

\* C16 amended: the line "1 12345 12345 6 P extra" yields the code
\* "112345123456"; a line whose second group has four digits yields no
\* record, alone or before a matching line.
C16_BoundaryJoined ==
  /\ HoldsRecordsOf(BoundaryLine) => loc.data = <<JoinedCode>>
  /\ HoldsRecordsOf(ShortLine) => loc.data = <<>>
  /\ HoldsRecordsOf(ShortLine \o <<"\n">> \o BoundaryLine) => loc.data = <<JoinedCode>>

\* the records of a report with a short line and the boundary line are held
C16_Witness ==
  /\ HoldsRecordsOf(ShortLine \o <<"\n">> \o BoundaryLine)
  /\ Len(loc.data) = 1

\* C17: every upload ever requested names an artifact file that an
\* original report had generated before.
C17_UploadsNameArtifacts == \A k \in DOMAIN uploads : uploads[k].name \in FileNames

\* the run is in the loop of line 188, or past it
InLoop == pc \in {"fetch", "reply", "body", "write", "store", "send", "close"}

BatchUids == {batch[i] : i \in 1..Len(batch)}

IsFetch(e) == e.op = "fetch"

\* the uids the run fetched so far, in order
FetchedUids ==
  LET fetches == SelectSeq(events, IsFetch)
  IN [i \in 1..Len(fetches) |-> fetches[i].uid]

\* messages of the batch the loop is through with
Handled == IF pc \in {"fetch", "close"} THEN idx - 1 ELSE idx

\* what holds of every state of the loop
ClosedBatchState ==
  InLoop =>
    /\ \A i \in 1..Len(batch) : \A j \in 1..Len(batch) : i < j => batch[i] < batch[j]
    /\ BatchUids \subseteq DOMAIN mailbox
    /\ FetchedUids = SubSeq(batch, 1, Handled)
    /\ \A i \in DOMAIN events : events[i].uid \in BatchUids
    /\ pc = "close" => FetchedUids = batch

\* what holds of every step of a run
ClosedBatchStep ==
  /\ (pc = "search" /\ InLoop') => batch' = SortedSeq(unseen)
  /\ InLoop =>
       /\ InLoop' => batch' = batch
       /\ (unseen \ unseen') \subseteq BatchUids
       /\ Len(events') > Len(events) => events'[Len(events')].uid \in BatchUids
       /\ Len(mailbox') > Len(mailbox) =>
            /\ Len(mailbox') \in unseen'
            /\ Len(mailbox') \notin BatchUids

\* C18: the batch of a run is the unread set its one search returned, in
\* ascending order; the run fetches the batch in that order, each message
\* once, and all of it by the time it closes the session; the batch does
\* not change while the run is in its loop, so a message that arrives
\* unread in the meantime is not in it, and the run fetches, acts on and
\* marks messages of the batch only.
C18_ClosedBatch == []ClosedBatchState /\ [][ClosedBatchStep]_vars

\* the run is through with its batch while a message that arrived during
\* the loop waits unread
C18_Witness ==
  /\ pc = "close"
  /\ batch # <<>>
  /\ \E u \in unseen : \A i \in 1..Len(batch) : batch[i] < u

\* C19: in the run's history every send, successful or not, comes after
\* a successful write of the same message under the same name; after a
\* failed write no send follows for that message; and every notification
\* ever sent names, in the brackets of its subject, a file of the store.
C19_NotifiedAfterPersisted ==
  /\ \A i \in DOMAIN events :
       /\ events[i].op = "send" =>
            \E j \in 1..(i - 1) :
              /\ events[j].op = "write" /\ events[j].ok
              /\ events[j].uid = events[i].uid
              /\ events[j].name = events[i].name
       /\ (events[i].op = "write" /\ ~events[i].ok) =>
            /\ i = Len(events)
            /\ pc = "idle" /\ outcome = "error"
            /\ SentInRun(events[i].uid) = {}
  /\ \A n \in DOMAIN sent :
       \E f \in files : sent[n].subject = SubjectTag \o Bracketed(f.name)

\* a notification was sent in a run, and a write failed later in that run
C19_Witness ==
  /\ \E i \in DOMAIN events : events[i].op = "send" /\ events[i].ok
  /\ \E i \in DOMAIN events : events[i].op = "write" /\ ~events[i].ok

ReplyOps == {"fetch", "upload"}

OriginalOps == {"fetch", "nobody", "write", "store", "send"}

\* C20: what a run does for a message classified as a reply is fetch and
\* upload only (no write, no store, no send), and what it does for an
\* original is never an upload; the reply branch holds no extracted data
\* and no file name; over all runs, uploads are requested for replies only
\* and notifications sent for originals only.
C20_BranchesDisjoint ==
  /\ \A i \in DOMAIN events :
       IF is_reply(mailbox[events[i].uid])
       THEN events[i].op \in ReplyOps
       ELSE events[i].op \in OriginalOps
  /\ pc = "reply" => (is_reply(CurMsg) /\ loc = EmptyLoc)
  /\ InOriginalBranch => ~is_reply(CurMsg)
  /\ \A k \in DOMAIN uploads : is_reply(mailbox[uploads[k].uid])
  /\ \A n \in DOMAIN sent : ~is_reply(mailbox[sent[n].uid])

\* one run uploaded for a reply and notified for an original
C20_Witness ==
  /\ \E i \in DOMAIN events : events[i].op = "upload"
  /\ \E i \in DOMAIN events : events[i].op = "send" /\ events[i].ok

====
